---- MODULE Spec2Model ----
(***************************************************************************)
(* Model of reader3.py: the conversion of an EPUB (spine files plus table  *)
(* of contents) or a PDF (pages plus outline) into a Book, i.e. an ordered *)
(* list of chapters (spine) and a navigation tree (toc).                   *)
(*                                                                         *)
(* Strings that process_pdf builds by formatting numbers (chapter ids,      *)
(* hrefs, "Pages a-b") are TLA+ strings.  Strings that process_epub splits *)
(* or searches (hrefs, file names, anchors, str(body)) are sequences of    *)
(* tokens, the empty string being <<>>, so that split('#'), find, rfind    *)
(* and slicing work on positions and a substring search is a subsequence   *)
(* search.  The text of PDF page k is represented by the number k.         *)
(*                                                                         *)
(* Metadata and the image map are written by the code but read by none of  *)
(* the steps modelled here; the files of the archives below hold no <img>  *)
(* element, so step A of process_epub (image paths) leaves them as they    *)
(* are.  Of the output directory the model keeps whether it is absent,     *)
(* left over from an earlier run, or made by this run.                     *)
(***************************************************************************)
EXTENDS Integers, Sequences, FiniteSets, TLC

VARIABLES
    pc,              \* position in process_pdf / process_epub / split_chapter_by_anchors
    doc,             \* fitz document: [n |-> page count, toc |-> outline]
    book,            \* ebooklib book: [items |-> manifest, spine |-> idrefs, toc |-> native toc]
    chapter_ranges,  \* process_pdf: list of range dicts
    spine_chapters,  \* list of ChapterContent built so far
    toc_structure,   \* list of TOCEntry (navigation tree roots)
    flat_toc,        \* process_epub: flatten_toc(toc_structure)
    fallback_used,   \* process_epub: the warning of line 302 was printed
    i,               \* loop index (0-based, as in the code)
    soup,            \* split_chapter_by_anchors: the parsed, cleaned file
    toc_entries,     \* split_chapter_by_anchors: the entries that target the file
    sections,        \* split_chapter_by_anchors: the returned list
    caller,          \* "cli" (reader3.py __main__) or "upload" (server.py upload_book)
    input_file,      \* the input: [given, ext |-> extension as written, exists, readable]
    out_dir,         \* output directory: "absent", "old" (earlier run) or "new"
    tmp_path,        \* upload_book: the temporary copy of the upload exists
    outcome,         \* how the run ended, "" while it is going on
    raw_text,        \* extract_plain_text: the text handed to the normalisation
    plain_text       \* extract_plain_text: the returned string

vars == <<pc, doc, book, chapter_ranges, spine_chapters, toc_structure, flat_toc,
          fallback_used, i, soup, toc_entries, sections,
          caller, input_file, out_dir, tmp_path, outcome, raw_text, plain_text>>

\* the variables of the front end (CLI or upload handler) and the output directory
run_vars == <<caller, input_file, out_dir, tmp_path, outcome>>

\* the variables of extract_plain_text
text_vars == <<raw_text, plain_text>>

\* the variables process_pdf never touches
epub_vars == <<book, flat_toc, fallback_used, soup, toc_entries, sections>>

\* values of the variables a pipeline does not use
NoDoc == [n |-> 0, toc |-> <<>>]

NoBook == [items |-> <<>>, spine |-> <<>>, toc |-> <<>>]

NoSoup == [body_tag |-> FALSE, head |-> <<>>, body |-> <<>>]

\* A command-line run on an existing, readable file of extension ext that has got
\* past the preparation of the output directory (lines 271-274, 434-437)
InRun(ext) ==
    /\ caller = "cli"
    /\ input_file = [given |-> TRUE, ext |-> ext, exists |-> TRUE, readable |-> TRUE]
    /\ out_dir = "new"
    /\ tmp_path = FALSE
    /\ outcome = ""

NoText == raw_text = <<>> /\ plain_text = <<>>

----------------------------------------------------------------------------
(* Generic helpers *)

Min(S) == CHOOSE x \in S : \A y \in S : x <= y

Max(S) == CHOOSE x \in S : \A y \in S : x >= y

Range(s) == {s[k] : k \in 1..Len(s)}

----------------------------------------------------------------------------
(* process_pdf *)

\* Bounds of the PDF inputs
MaxPages == 23

MaxOutline == 3

\* 1-based page numbers an outline entry may carry (30: past the last page)
OutlinePages == {1, 5, 30}

OutlineLevels == {1, 2, 3}

pages_per_chapter == 10

\* get_toc(): levels start at 1 and grow by at most one from one entry to the next
WellNested(levels) ==
    /\ Len(levels) > 0 => levels[1] = 1
    /\ \A k \in 2..Len(levels) : levels[k] <= levels[k-1] + 1

OutlineTitle(k) ==
    IF k = 1 THEN "Intro" ELSE IF k = 2 THEN "Body" ELSE "T" \o ToString(k)

Outlines ==
    UNION { { [k \in 1..len |->
                 [level |-> ls[k], title |-> OutlineTitle(k), page |-> ps[k]]]
              : ls \in {l \in [1..len -> OutlineLevels] : WellNested(l)},
                ps \in [1..len -> OutlinePages] }
            : len \in 0..MaxOutline }

PdfDocs == [n : 0..MaxPages, toc : Outlines]

\* lines 457-464: end page of entry i (1-based index here) of the outline
EndPageNextEntry(toc_outline, k, n) ==
    IF k < Len(toc_outline) THEN toc_outline[k+1].page - 2 ELSE n - 1

EndPageOffByOne(toc_outline, k, n) ==
    LET later == {j \in (k+1)..Len(toc_outline) :
                     toc_outline[j].level <= toc_outline[k].level}
    IN  IF later = {} THEN n - 1 ELSE toc_outline[Min(later)].page - 1

EndPage(toc_outline, k, n) ==
    LET later == {j \in (k+1)..Len(toc_outline) :
                     toc_outline[j].level <= toc_outline[k].level}
    IN  IF later = {} THEN n - 1 ELSE toc_outline[Min(later)].page - 2

\* lines 452-472: the range dict of entry k (1-based), 'order' is the 0-based index
ChapterRange(toc_outline, k, n) ==
    [level |-> toc_outline[k].level,
     title |-> toc_outline[k].title,
     start |-> toc_outline[k].page - 1,
     end   |-> EndPage(toc_outline, k, n),
     order |-> k - 1]

\* lines 479-485: the pages of range(start, end + 1) that pass the bounds test
TextParts(start, end, n) ==
    LET lo == IF start < 0 THEN 0 ELSE start
        hi == IF end > n - 1 THEN n - 1 ELSE end
    IN  IF hi < lo THEN <<>> ELSE [k \in 1..(hi - lo + 1) |-> lo + k - 1]

\* lines 489-496 and 530-537; content (one <p> per page inside a <div>) and text
\* (the page texts joined by ' ') are both given by the list of harvested pages
PdfChapter(num, title, text_parts) ==
    [id      |-> "chapter_" \o ToString(num),
     href    |-> "chapter_" \o ToString(num) \o ".html",
     title   |-> title,
     content |-> text_parts,
     text    |-> text_parts,
     order   |-> num]

\* lines 500-505 and 540-545
PdfTocEntry(num, title) ==
    [title     |-> title,
     href      |-> "chapter_" \o ToString(num) \o ".html",
     file_href |-> "chapter_" \o ToString(num) \o ".html",
     anchor    |-> "",
     children  |-> <<>>]

\* line 515
ChunkEndNoClamp(chunk_start, total_pages) == chunk_start + pages_per_chapter

ChunkEnd(chunk_start, total_pages) ==
    IF chunk_start + pages_per_chapter < total_pages
    THEN chunk_start + pages_per_chapter ELSE total_pages

\* line 529
ChunkTitle(chunk_start, chunk_end) ==
    "Pages " \o ToString(chunk_start + 1) \o "-" \o ToString(chunk_end)

InitPdf ==
    /\ pc = "get_toc"
    /\ doc \in PdfDocs
    /\ book = NoBook
    /\ chapter_ranges = <<>>
    /\ spine_chapters = <<>>
    /\ toc_structure = <<>>
    /\ flat_toc = <<>>
    /\ fallback_used = FALSE
    /\ i = 0
    /\ soup = NoSoup
    /\ toc_entries = <<>>
    /\ sections = <<>>
    /\ InRun(".pdf")
    /\ NoText

\* line 446, true branch
OutlineFound ==
    /\ pc = "get_toc"
    /\ Len(doc.toc) > 0
    /\ pc' = "ranges"
    /\ UNCHANGED <<run_vars, text_vars, doc, chapter_ranges, spine_chapters, toc_structure, i, epub_vars>>

\* line 508, else branch
NoOutline ==
    /\ pc = "get_toc"
    /\ Len(doc.toc) = 0
    /\ pc' = "chunks"
    /\ UNCHANGED <<run_vars, text_vars, doc, chapter_ranges, spine_chapters, toc_structure, i, epub_vars>>

\* one iteration of the loop of lines 452-472
BuildRange ==
    /\ pc = "ranges"
    /\ i < Len(doc.toc)
    /\ chapter_ranges' = Append(chapter_ranges, ChapterRange(doc.toc, i + 1, doc.n))
    /\ i' = i + 1
    /\ UNCHANGED <<run_vars, text_vars, pc, doc, spine_chapters, toc_structure, epub_vars>>

RangesBuilt ==
    /\ pc = "ranges"
    /\ i = Len(doc.toc)
    /\ pc' = "chapters"
    /\ i' = 0
    /\ UNCHANGED <<run_vars, text_vars, doc, chapter_ranges, spine_chapters, toc_structure, epub_vars>>

\* one iteration of the loop of lines 475-506
CreateChapter ==
    /\ pc = "chapters"
    /\ i < Len(chapter_ranges)
    /\ LET chapter_info == chapter_ranges[i + 1]
           text_parts == TextParts(chapter_info.start, chapter_info.end, doc.n)
       IN  /\ spine_chapters' =
                Append(spine_chapters, PdfChapter(i, chapter_info.title, text_parts))
           /\ toc_structure' =
                Append(toc_structure, PdfTocEntry(i, chapter_info.title))
    /\ i' = i + 1
    /\ UNCHANGED <<run_vars, text_vars, pc, doc, chapter_ranges, epub_vars>>

\* one iteration of the loop of lines 514-546; i holds chunk_start
ChunkStep ==
    /\ pc = "chunks"
    /\ i < doc.n
    /\ LET chunk_end == ChunkEnd(i, doc.n)
           chapter_num == i \div pages_per_chapter
           text_parts == [k \in 1..(chunk_end - i) |-> i + k - 1]
           title == ChunkTitle(i, chunk_end)
       IN  /\ spine_chapters' =
                Append(spine_chapters, PdfChapter(chapter_num, title, text_parts))
           /\ toc_structure' = Append(toc_structure, PdfTocEntry(chapter_num, title))
    /\ i' = i + pages_per_chapter
    /\ UNCHANGED <<run_vars, text_vars, pc, doc, chapter_ranges, epub_vars>>

\* lines 548-560: the Book is assembled and returned
ReturnPdfBook ==
    /\ \/ pc = "chapters" /\ i = Len(chapter_ranges)
       \/ pc = "chunks" /\ i >= doc.n
    /\ pc' = "done"
    /\ UNCHANGED <<run_vars, text_vars, doc, chapter_ranges, spine_chapters, toc_structure, i, epub_vars>>

NextPdf ==
    \/ OutlineFound
    \/ NoOutline
    \/ BuildRange
    \/ RangesBuilt
    \/ CreateChapter
    \/ ChunkStep
    \/ ReturnPdfBook

SpecPdf == InitPdf /\ [][NextPdf]_vars

----------------------------------------------------------------------------
(* Claims about process_pdf *)

\* The outline lists its entries in page order
Ordered(toc_outline) ==
    \A k \in 1..(Len(toc_outline) - 1) : toc_outline[k].page <= toc_outline[k+1].page

\* The pages whose text went into chapter k (1-based position in spine_chapters)
Harvested(k) == Range(spine_chapters[k].text)

\* Entry b lies under entry a: no entry of a+1..b is as shallow as a
NestedUnder(toc_outline, a, b) ==
    \A m \in (a+1)..b : toc_outline[m].level > toc_outline[a].level

\* C5: every range built by the Page-Range Builder starts at p-1 and ends at q-2,
\* q the page of the first later entry of equal-or-shallower level (deeper entries
\* in between do not close it), or at pageCount-1 when there is no such entry; the
\* outline [(1,Intro,1),(1,Body,5)] on 10 pages gives [0,3] and [4,9].
C5_PageRanges ==
    /\ \A k \in 1..Len(chapter_ranges) :
          LET L == doc.toc[k].level
              r == chapter_ranges[k]
          IN  /\ r.start = doc.toc[k].page - 1
              /\ \/ \E j \in (k+1)..Len(doc.toc) :
                       /\ doc.toc[j].level <= L
                       /\ \A m \in (k+1)..(j-1) : doc.toc[m].level > L
                       /\ r.end = doc.toc[j].page - 2
                 \/ /\ \A j \in (k+1)..Len(doc.toc) : doc.toc[j].level > L
                    /\ r.end = doc.n - 1
    /\ ( /\ pc = "done"
         /\ doc.n = 10
         /\ doc.toc = << [level |-> 1, title |-> "Intro", page |-> 1],
                         [level |-> 1, title |-> "Body", page |-> 5] >> )
       => /\ Len(chapter_ranges) = 2
          /\ <<chapter_ranges[1].start, chapter_ranges[1].end>> = <<0, 3>>
          /\ <<chapter_ranges[2].start, chapter_ranges[2].end>> = <<4, 9>>

\* C5 witness: all ranges are built for an outline in which a deeper entry stands
\* between an entry and the entry that closes its range
C5_Witness ==
    /\ pc = "done"
    /\ doc.n = 10
    /\ Len(chapter_ranges) = 3
    /\ doc.toc[1].level = 1 /\ doc.toc[2].level = 2 /\ doc.toc[3].level = 1
    /\ doc.toc[1].page = 1 /\ doc.toc[2].page = 1 /\ doc.toc[3].page = 5
    /\ chapter_ranges[1].end = 3

\* C6 as stated: for every ordered outline no page is harvested into the text of
\* two different chapters
C6_NoPageInTwoChapters ==
    (pc = "done" /\ Len(doc.toc) > 0 /\ Ordered(doc.toc))
        => \A a, b \in 1..Len(spine_chapters) :
              a < b => Harvested(a) \cap Harvested(b) = {}

\* C6 amended: for every ordered outline, the range of an entry ends one page before
\* the start of the first later entry of equal-or-shallower level (contiguous), and
\* two chapters share a page only when the later entry is nested under the earlier
\* one; the pages of a nested entry are all harvested into the enclosing entry's
\* chapter as well.
C6_OverlapOnlyWhenNested ==
    (pc = "done" /\ Len(doc.toc) > 0 /\ Ordered(doc.toc))
        => /\ \A a, b \in 1..Len(spine_chapters) :
                 a < b =>
                    IF NestedUnder(doc.toc, a, b)
                    THEN Harvested(b) \subseteq Harvested(a)
                    ELSE Harvested(a) \cap Harvested(b) = {}
           /\ \A a, b \in 1..Len(chapter_ranges) :
                 ( /\ a < b
                   /\ doc.toc[b].level <= doc.toc[a].level
                   /\ NestedUnder(doc.toc, a, b - 1) )
                 => chapter_ranges[a].end + 1 = chapter_ranges[b].start

\* C6 witness: an ordered outline with a parent, a nested entry sharing its pages
\* and a following sibling, all chapters built
C6_Witness ==
    /\ pc = "done"
    /\ Len(doc.toc) = 3
    /\ Len(spine_chapters) = 3
    /\ Ordered(doc.toc)
    /\ NestedUnder(doc.toc, 1, 2)
    /\ ~NestedUnder(doc.toc, 1, 3)
    /\ Harvested(2) # {}
    /\ Harvested(2) \subseteq Harvested(1)
    /\ Harvested(3) # {}

\* C9: without an outline, N pages give ceil(N/10) chapters; chunk k covers exactly
\* pages 10k .. min(10k+10, N)-1, is titled "Pages {first}-{last}" (1-based,
\* inclusive) and has one flat navigation entry with empty anchor; N = 23 gives
\* Pages 1-10, Pages 11-20, Pages 21-23.
C9_PageChunks ==
    (pc = "done" /\ Len(doc.toc) = 0)
        => /\ Len(spine_chapters) = (doc.n + 9) \div 10
           /\ Len(toc_structure) = Len(spine_chapters)
           /\ \A c \in 1..Len(spine_chapters) :
                 LET first == 10 * (c - 1)
                     last  == (IF 10 * c < doc.n THEN 10 * c ELSE doc.n) - 1
                 IN  /\ Len(spine_chapters[c].text) = last - first + 1
                     /\ \A m \in 1..Len(spine_chapters[c].text) :
                           spine_chapters[c].text[m] = first + m - 1
                     /\ spine_chapters[c].title =
                           "Pages " \o ToString(first + 1) \o "-" \o ToString(last + 1)
                     /\ toc_structure[c].title = spine_chapters[c].title
                     /\ toc_structure[c].anchor = ""
                     /\ toc_structure[c].children = <<>>
                     /\ toc_structure[c].href = spine_chapters[c].href
           /\ \A p \in 0..(doc.n - 1) :
                 Cardinality({c \in 1..Len(spine_chapters) : p \in Harvested(c)}) = 1
           /\ doc.n = 23 =>
                 [c \in 1..Len(spine_chapters) |-> spine_chapters[c].title]
                    = <<"Pages 1-10", "Pages 11-20", "Pages 21-23">>

\* C9 witness: a 23-page document without outline has been chunked
C9_Witness ==
    /\ pc = "done"
    /\ Len(doc.toc) = 0
    /\ doc.n = 23
    /\ Len(spine_chapters) = 3

----------------------------------------------------------------------------
(* Strings and markup as token sequences *)

\* str.find(sub): 0-based index of the first occurrence, -1 when there is none
Find(s, sub) ==
    LET hits == {p \in 0..(Len(s) - Len(sub)) : SubSeq(s, p + 1, p + Len(sub)) = sub}
    IN  IF hits = {} THEN -1 ELSE Min(hits)

\* str.rfind(tok, lo, hi): 0-based index of the last occurrence inside s[lo:hi]
RFind(s, tok, lo, hi) ==
    LET hits == {p \in lo..(hi - 1) : p < Len(s) /\ s[p + 1] = tok}
    IN  IF hits = {} THEN -1 ELSE Max(hits)

\* s[a:b] of Python, negative indices counted from the end
Slice(s, a, b) ==
    LET clip(x) == IF x < 0 THEN (IF Len(s) + x < 0 THEN 0 ELSE Len(s) + x)
                   ELSE IF x > Len(s) THEN Len(s) ELSE x
    IN  IF clip(a) >= clip(b) THEN <<>> ELSE SubSeq(s, clip(a) + 1, clip(b))

\* str.split('#')
RECURSIVE SplitHash(_)
SplitHash(s) ==
    IF \A k \in 1..Len(s) : s[k] # "#" THEN <<s>>
    ELSE LET p == Min({k \in 1..Len(s) : s[k] = "#"})
         IN  <<SubSeq(s, 1, p - 1)>> \o SplitHash(SubSeq(s, p + 1, Len(s)))

\* The characters str.split() without argument takes as separators
Whitespace == {" ", "\t", "\n"}

\* ' '.join(text.split(' ')): splitting on the single space gives the text back
JoinSplitOnSpace(text) == text

\* ' '.join(text.split()): whitespace runs collapsed, none at either end
RECURSIVE CollapseWhitespace(_)
CollapseWhitespace(text) ==
    IF text = <<>> THEN <<>>
    ELSE IF Head(text) \in Whitespace THEN CollapseWhitespace(Tail(text))
    ELSE IF Len(text) = 1 THEN text
    ELSE IF text[2] \notin Whitespace THEN <<Head(text)>> \o CollapseWhitespace(Tail(text))
    ELSE LET rest == CollapseWhitespace(Tail(text))
         IN  IF rest = <<>> THEN <<Head(text)>> ELSE <<Head(text), " ">> \o rest

\* An element <tag data-id="data" id="id">text</tag>; an absent attribute is <<>>
Element(tag, data, id, text) == [tag |-> tag, data |-> data, id |-> id, text |-> text]

\* str(tag) of one element: attribute values are written in double quotes
StrElement(e) ==
    <<"<", e.tag>>
    \o (IF e.data # <<>> THEN <<"data-", "id=\"">> \o e.data \o <<"\"">> ELSE <<>>)
    \o (IF e.id # <<>> THEN <<"id=\"">> \o e.id \o <<"\"">> ELSE <<>>)
    \o <<">">> \o e.text \o <<"<", "/", e.tag, ">">>

RECURSIVE StrElements(_)
StrElements(es) ==
    IF es = <<>> THEN <<>> ELSE StrElement(Head(es)) \o StrElements(Tail(es))

\* str(body) of line 210: the body element with its own tags
StrBody(sp) == <<"<", "body", ">">> \o StrElements(sp.body) \o <<"<", "/", "body", ">">>

\* str(soup): a file without body tag is a bare list of elements
StrSoup(sp) ==
    IF sp.body_tag
    THEN <<"<", "head", ">">> \o StrElements(sp.head) \o <<"<", "/", "head", ">">>
         \o StrBody(sp)
    ELSE StrElements(sp.head) \o StrElements(sp.body)

\* lines 73-87: the listed tags are removed with their content
RemovedTags == {"script", "style", "iframe", "video", "nav", "form", "button", "input"}

clean_html_content(sp) ==
    LET keep(e) == e.tag \notin RemovedTags
    IN  [sp EXCEPT !.head = SelectSeq(sp.head, keep), !.body = SelectSeq(sp.body, keep)]

\* get_text(separator=' ') of parsed markup: every tag separates two text nodes
RECURSIVE GetText(_, _)
GetText(html, in_tag) ==
    IF html = <<>> THEN <<>>
    ELSE IF Head(html) = "<" THEN <<" ">> \o GetText(Tail(html), TRUE)
    ELSE IF in_tag THEN GetText(Tail(html), Head(html) # ">")
    ELSE <<Head(html)>> \o GetText(Tail(html), FALSE)

\* lines 90-94
extract_plain_text(html) == CollapseWhitespace(GetText(html, FALSE))

\* soup.descendants restricted to the elements, in document order
AllElements(sp) == sp.head \o sp.body

\* soup.find(id=...) followed by all_elements.index(...): position (1-based) of the
\* first element bearing the id, 0 when there is none
FindId(sp, anchor_id) ==
    LET hits == {k \in 1..Len(AllElements(sp)) : AllElements(sp)[k].id = anchor_id}
    IN  IF hits = {} THEN 0 ELSE Min(hits)

----------------------------------------------------------------------------
(* split_chapter_by_anchors *)

\* lines 188-197: (pos, toc_entry) of every entry whose anchor resolves
RECURSIVE AnchorPositions(_, _)
AnchorPositions(entries, sp) ==
    IF entries = <<>> THEN <<>>
    ELSE LET t == Head(entries)
             rest == AnchorPositions(Tail(entries), sp)
         IN  IF t.anchor # <<>> /\ FindId(sp, t.anchor) > 0
             THEN <<[pos |-> FindId(sp, t.anchor), toc_entry |-> t]>> \o rest
             ELSE rest

\* line 203: list.sort is stable
RECURSIVE SortByPos(_)
SortByPos(aps) ==
    IF aps = <<>> THEN <<>>
    ELSE LET m == Min({k \in 1..Len(aps) :
                          \A j \in 1..Len(aps) :
                             aps[k].pos < aps[j].pos \/ (aps[k].pos = aps[j].pos /\ k <= j)})
         IN  <<aps[m]>> \o SortByPos(SubSeq(aps, 1, m - 1) \o SubSeq(aps, m + 1, Len(aps)))

\* lines 219-225 and 236-240: the double-quoted marker is tried first
MarkerPos(body_html, anchor_id) ==
    IF Find(body_html, <<"id=\"">> \o anchor_id \o <<"\"">>) # -1
    THEN Find(body_html, <<"id=\"">> \o anchor_id \o <<"\"">>)
    ELSE Find(body_html, <<"id='">> \o anchor_id \o <<"'">>)

\* lines 234-247
SectionEnd(aps, idx, body_html) ==
    IF idx < Len(aps)
    THEN LET end_pos == MarkerPos(body_html, aps[idx + 1].toc_entry.anchor)
         IN  IF end_pos # -1 THEN RFind(body_html, "<", 0, end_pos) ELSE Len(body_html)
    ELSE Len(body_html)

\* lines 215-256, one pass of the loop: the section of entry idx (1-based), or
\* nothing when its marker is not in body_html
Section(aps, idx, body_html) ==
    LET toc_entry == aps[idx].toc_entry
        start_pos == MarkerPos(body_html, toc_entry.anchor)
        tag_start == RFind(body_html, "<", 0, start_pos)
        section_html == Slice(body_html, tag_start, SectionEnd(aps, idx, body_html))
    IN  IF start_pos = -1 THEN <<>>
        ELSE << [anchor |-> toc_entry.anchor,
                 title  |-> toc_entry.title,
                 html   |-> section_html,
                 text   |-> extract_plain_text(section_html)] >>

RECURSIVE Sections(_, _, _)
Sections(aps, idx, body_html) ==
    IF idx > Len(aps) THEN <<>>
    ELSE Section(aps, idx, body_html) \o Sections(aps, idx + 1, body_html)

\* lines 176-258
split_chapter_by_anchors(entries, sp) ==
    LET anchor_positions == SortByPos(AnchorPositions(entries, sp))
        body_html == IF sp.body_tag THEN StrBody(sp) ELSE StrSoup(sp)
    IN  IF entries = <<>> \/ anchor_positions = <<>> THEN <<>>
        ELSE Sections(anchor_positions, 1, body_html)

----------------------------------------------------------------------------
(* split_chapter_by_anchors on its own: the inputs process_epub can pass to it *)

\* lines 107-113, 116-121, 125-130: the TOCEntry of a native node
TocEntry(title, href, children) ==
    [title     |-> title,
     href      |-> href,
     file_href |-> SplitHash(href)[1],
     anchor    |-> IF \E k \in 1..Len(href) : href[k] = "#" THEN SplitHash(href)[2] ELSE <<>>,
     children  |-> children]

\* Bounds of the splitter's inputs
MaxElements == 3

MaxEntries == 3

\* The elements a body is made of: plain, the two anchors, an element whose data-id
\* attribute has an anchor's name as value, an element whose text quotes the marker
BodyElements ==
    { Element("p", <<>>, <<>>, <<"w0">>),
      Element("h1", <<>>, <<"a1">>, <<"w1">>),
      Element("h2", <<>>, <<"a2">>, <<"w2">>),
      Element("p", <<"a2">>, <<>>, <<"w3">>),
      Element("p", <<>>, <<>>, <<"id=\"", "a2", "\"">>) }

\* A head is empty or holds one element that bears an id
Heads == { <<>>, <<Element("title", <<>>, <<"a1">>, <<"t">>)>> }

SplitSoups ==
    { sp \in [body_tag : BOOLEAN, head : Heads,
              body : UNION {[1..n -> BodyElements] : n \in 0..MaxElements}] :
         ~sp.body_tag => sp.head = <<>> }

SplitAnchors == { <<"a1">>, <<"a2">>, <<"a9">> }

\* line 353 with line 355: at least two entries, all of one file, all anchored
SplitEntries ==
    UNION { { [k \in 1..n |->
                 TocEntry(<<"T" \o ToString(k)>>, <<"f1", ".html", "#">> \o as[k], <<>>)]
              : as \in [1..n -> SplitAnchors] }
            : n \in 2..MaxEntries }

InitSplit ==
    /\ pc = "call"
    /\ soup \in SplitSoups
    /\ toc_entries \in SplitEntries
    /\ sections = <<>>
    /\ doc = NoDoc
    /\ book = NoBook
    /\ chapter_ranges = <<>>
    /\ spine_chapters = <<>>
    /\ toc_structure = <<>>
    /\ flat_toc = <<>>
    /\ fallback_used = FALSE
    /\ i = 0
    /\ InRun(".epub")
    /\ NoText

\* line 358: the call returns
CallSplit ==
    /\ pc = "call"
    /\ sections' = split_chapter_by_anchors(toc_entries, soup)
    /\ pc' = "return"
    /\ UNCHANGED <<run_vars, text_vars, doc, book, chapter_ranges, spine_chapters, toc_structure, flat_toc,
                   fallback_used, i, soup, toc_entries>>

NextSplit == CallSplit

SpecSplit == InitSplit /\ [][NextSplit]_vars

----------------------------------------------------------------------------
(* Claims about split_chapter_by_anchors *)

\* 0-based offset in str(body) of the opening tag of the k-th element of the body
TagOffset(sp, k) ==
    (IF sp.body_tag THEN 3 ELSE 0) + Len(StrElements(SubSeq(sp.body, 1, k - 1)))

BodyHtml(sp) == IF sp.body_tag THEN StrBody(sp) ELSE StrSoup(sp)

\* Position in the body (1-based, 0 if none) of the element anchor_id resolves to
BodyIndex(sp, anchor_id) ==
    IF FindId(sp, anchor_id) > Len(sp.head) THEN FindId(sp, anchor_id) - Len(sp.head) ELSE 0

\* C4: two anchored entries a1, a2 that resolve to elements of the body, a1's first,
\* give exactly two chapters a1, a2 whatever their order in the table of contents;
\* the first ends at the opening tag of a2's element and the second starts there
\* and runs to the end of the body, for every body content.
C4_TwoAnchorsSplitAtElement ==
    ( /\ pc = "return"
      /\ Len(toc_entries) = 2
      /\ {toc_entries[1].anchor, toc_entries[2].anchor} = {<<"a1">>, <<"a2">>}
      /\ 0 < BodyIndex(soup, <<"a1">>)
      /\ BodyIndex(soup, <<"a1">>) < BodyIndex(soup, <<"a2">>) )
    => LET boundary == TagOffset(soup, BodyIndex(soup, <<"a2">>))
           body_html == BodyHtml(soup)
       IN  /\ Len(sections) = 2
           /\ sections[1].anchor = <<"a1">>
           /\ sections[2].anchor = <<"a2">>
           /\ \E b \in 0..boundary : sections[1].html = Slice(body_html, b, boundary)
           /\ sections[2].html = Slice(body_html, boundary, Len(body_html))

----------------------------------------------------------------------------
(* process_epub *)

\* Bound of the EPUB inputs: root nodes of the native table of contents
MaxToc == 2

\* lines 97-133: tuples carry children, links and bare sections do not, any other
\* node is skipped
RECURSIVE parse_toc_recursive(_)
parse_toc_recursive(toc_list) ==
    IF toc_list = <<>> THEN <<>>
    ELSE LET item == Head(toc_list)
             rest == parse_toc_recursive(Tail(toc_list))
         IN  CASE item.kind = "tuple" ->
                    <<TocEntry(item.title, item.href, parse_toc_recursive(item.children))>>
                    \o rest
               [] item.kind \in {"link", "section"} ->
                    <<TocEntry(item.title, item.href, <<>>)>> \o rest
               [] OTHER -> rest

\* str.title() on the words of the file names used here
TitleCase(word) ==
    CASE word = "ch" -> "Ch"
      [] word = "one" -> "One"
      [] word = "notes" -> "Notes"
      [] word = "pic" -> "Pic"
      [] OTHER -> word

\* line 145: replace('.html', '').replace('.xhtml', '').replace('_', ' ').title()
RECURSIVE FallbackTitle(_)
FallbackTitle(name) ==
    IF name = <<>> THEN <<>>
    ELSE IF Head(name) \in {".html", ".xhtml"} THEN FallbackTitle(Tail(name))
    ELSE IF Head(name) = "_" THEN <<" ">> \o FallbackTitle(Tail(name))
    ELSE <<TitleCase(Head(name))>> \o FallbackTitle(Tail(name))

\* lines 136-147: one entry per document item of book.get_items()
RECURSIVE get_fallback_toc(_)
get_fallback_toc(items) ==
    IF items = <<>> THEN <<>>
    ELSE IF Head(items).type = "document"
    THEN << [title     |-> FallbackTitle(Head(items).name),
             href      |-> Head(items).name,
             file_href |-> Head(items).name,
             anchor    |-> <<>>,
             children  |-> <<>>] >> \o get_fallback_toc(Tail(items))
    ELSE get_fallback_toc(Tail(items))

\* lines 306-312: pre-order
RECURSIVE flatten_toc(_)
flatten_toc(toc_list) ==
    IF toc_list = <<>> THEN <<>>
    ELSE <<Head(toc_list)>> \o flatten_toc(Head(toc_list).children)
         \o flatten_toc(Tail(toc_list))

\* book.get_item_with_id: the manifest item with that id, 0 for None
ItemIndex(bk, item_id) ==
    LET hits == {k \in 1..Len(bk.items) : bk.items[k].id = item_id}
    IN  IF hits = {} THEN 0 ELSE Min(hits)

\* line 353
FileTocEntries(flat, file_href) ==
    SelectSeq(flat, LAMBDA t : t.file_href = file_href /\ t.anchor # <<>>)

\* line 355
NeedsSplitFromOne(entries) == Len(entries) > 0

NeedsSplit(entries) == Len(entries) > 1

\* line 367: order of the chapter of section section_idx (0-based), the chapters
\* of the earlier sections being appended already
SplitOrderPerUnit(chapters_before, section_idx) == section_idx

SplitOrder(chapters_before, section_idx) == Len(chapters_before) + section_idx

\* lines 360-369
SplitChapters(item, secs, chapters_before) ==
    [k \in 1..Len(secs) |->
        [id      |-> item.id \o <<"#">> \o secs[k].anchor,
         href    |-> item.name \o <<"#">> \o secs[k].anchor,
         title   |-> secs[k].title,
         content |-> secs[k].html,
         text    |-> secs[k].text,
         order   |-> SplitOrder(chapters_before, k - 1)]]

\* lines 381-382; idx is the 0-based position in book.spine
SectionTitle(flat, file_href, idx) ==
    LET hits == {k \in 1..Len(flat) : flat[k].file_href = file_href}
    IN  IF hits # {} THEN flat[Min(hits)].title ELSE <<"Section " \o ToString(idx + 1)>>

\* lines 372-391
SingleChapter(item, sp, flat, idx, chapters_before) ==
    [id      |-> item.id,
     href    |-> item.name,
     title   |-> SectionTitle(flat, item.name, idx),
     content |-> IF sp.body_tag THEN StrElements(sp.body) ELSE StrSoup(sp),
     text    |-> extract_plain_text(StrSoup(sp)),
     order   |-> Len(chapters_before)]

\* The files of the archive
Soup1 ==
    [body_tag |-> TRUE,
     head |-> <<Element("title", <<>>, <<>>, <<"t">>)>>,
     body |-> <<Element("h1", <<>>, <<"a1">>, <<"w1">>),
                Element("script", <<>>, <<>>, <<"js">>),
                Element("h2", <<>>, <<"a2">>, <<"w2", " ", "w3">>)>>]

Soup2 ==
    [body_tag |-> FALSE, head |-> <<>>, body |-> <<Element("p", <<>>, <<>>, <<"w0">>)>>]

ManifestItems ==
    { [id |-> <<"i1">>, name |-> <<"ch", "_", "one", ".html">>, type |-> "document"],
      [id |-> <<"i2">>, name |-> <<"notes", ".xhtml">>, type |-> "document"],
      [id |-> <<"i3">>, name |-> <<"pic", ".png">>, type |-> "image"] }

\* lines 330-331: item.get_content() parsed
ParsedContent(item) ==
    CASE item.id = <<"i1">> -> Soup1
      [] item.id = <<"i2">> -> Soup2
      [] OTHER -> NoSoup

\* Sequences without repetition over a set
Injective(S) ==
    UNION { {q \in [1..n -> S] : \A a, b \in 1..n : a # b => q[a] # q[b]}
            : n \in 0..Cardinality(S) }

\* The nodes of book.toc
Link(title, href) == [kind |-> "link", title |-> title, href |-> href, children |-> <<>>]

F1 == <<"ch", "_", "one", ".html">>

F2 == <<"notes", ".xhtml">>

NativeNodes ==
    { Link(<<"One">>, F1),
      Link(<<"One A">>, F1 \o <<"#", "a1">>),
      Link(<<"One B">>, F1 \o <<"#", "a2">>),
      [kind |-> "tuple", title |-> <<"Part">>, href |-> F1 \o <<"#", "a1">>,
       children |-> <<Link(<<"One A">>, F1 \o <<"#", "a1">>)>>],
      [kind |-> "tuple", title |-> <<"Notes A">>, href |-> F2 \o <<"#", "a1">>,
       children |-> <<Link(<<"Notes B">>, F2 \o <<"#", "a2">>)>>],
      [kind |-> "section", title |-> <<"Notes">>, href |-> F2, children |-> <<>>],
      [kind |-> "other", title |-> <<>>, href |-> <<>>, children |-> <<>>] }

\* A book holds at least two files and its spine names at least one
Books ==
    [items : {m \in Injective(ManifestItems) : Len(m) >= 2},
     spine : {q \in Injective({it.id : it \in ManifestItems}) : Len(q) >= 1},
     toc   : UNION {[1..n -> NativeNodes] : n \in 0..MaxToc}]

InitEpub ==
    /\ pc = "parse_toc"
    /\ book \in Books
    /\ doc = NoDoc
    /\ chapter_ranges = <<>>
    /\ spine_chapters = <<>>
    /\ toc_structure = <<>>
    /\ flat_toc = <<>>
    /\ fallback_used = FALSE
    /\ i = 0
    /\ soup = NoSoup
    /\ toc_entries = <<>>
    /\ sections = <<>>
    /\ InRun(".epub")
    /\ NoText

\* lines 298-314
ParseToc ==
    /\ pc = "parse_toc"
    /\ LET parsed == parse_toc_recursive(book.toc)
           structure == IF parsed = <<>> THEN get_fallback_toc(book.items) ELSE parsed
       IN  /\ fallback_used' = (parsed = <<>>)
           /\ toc_structure' = structure
           /\ flat_toc' = flatten_toc(structure)
    /\ pc' = "spine"
    /\ UNCHANGED <<run_vars, text_vars, doc, book, chapter_ranges, spine_chapters, i, soup, toc_entries, sections>>

\* lines 321-326: the spine names an item the book does not hold
SkipMissingItem ==
    /\ pc = "spine"
    /\ i < Len(book.spine)
    /\ ItemIndex(book, book.spine[i + 1]) = 0
    /\ i' = i + 1
    /\ UNCHANGED <<run_vars, text_vars, pc, doc, book, chapter_ranges, spine_chapters, toc_structure, flat_toc,
                   fallback_used, soup, toc_entries, sections>>

\* line 328, false: the item is not a document
SkipNonDocument ==
    /\ pc = "spine"
    /\ i < Len(book.spine)
    /\ ItemIndex(book, book.spine[i + 1]) # 0
    /\ book.items[ItemIndex(book, book.spine[i + 1])].type # "document"
    /\ i' = i + 1
    /\ UNCHANGED <<run_vars, text_vars, pc, doc, book, chapter_ranges, spine_chapters, toc_structure, flat_toc,
                   fallback_used, soup, toc_entries, sections>>

\* lines 328-369: the file has several anchored entries and is split
SplitFile ==
    /\ pc = "spine"
    /\ i < Len(book.spine)
    /\ ItemIndex(book, book.spine[i + 1]) # 0
    /\ LET item == book.items[ItemIndex(book, book.spine[i + 1])]
           cleaned == clean_html_content(ParsedContent(item))
           entries == FileTocEntries(flat_toc, item.name)
           secs == split_chapter_by_anchors(entries, cleaned)
       IN  /\ item.type = "document"
           /\ NeedsSplit(entries)
           /\ soup' = cleaned
           /\ toc_entries' = entries
           /\ sections' = secs
           /\ spine_chapters' = spine_chapters \o SplitChapters(item, secs, spine_chapters)
    /\ i' = i + 1
    /\ UNCHANGED <<run_vars, text_vars, pc, doc, book, chapter_ranges, toc_structure, flat_toc, fallback_used>>

\* lines 328-353 and 370-392: the file becomes one chapter
SingleSection ==
    /\ pc = "spine"
    /\ i < Len(book.spine)
    /\ ItemIndex(book, book.spine[i + 1]) # 0
    /\ LET item == book.items[ItemIndex(book, book.spine[i + 1])]
           cleaned == clean_html_content(ParsedContent(item))
           entries == FileTocEntries(flat_toc, item.name)
       IN  /\ item.type = "document"
           /\ ~NeedsSplit(entries)
           /\ soup' = cleaned
           /\ toc_entries' = entries
           /\ spine_chapters' =
                Append(spine_chapters,
                       SingleChapter(item, cleaned, flat_toc, i, spine_chapters))
    /\ i' = i + 1
    /\ UNCHANGED <<run_vars, text_vars, pc, doc, book, chapter_ranges, toc_structure, flat_toc, fallback_used,
                   sections>>

\* lines 394-404
ReturnEpubBook ==
    /\ pc = "spine"
    /\ i = Len(book.spine)
    /\ pc' = "done"
    /\ UNCHANGED <<run_vars, text_vars, doc, book, chapter_ranges, spine_chapters, toc_structure, flat_toc,
                   fallback_used, i, soup, toc_entries, sections>>

NextEpub ==
    \/ ParseToc
    \/ SkipMissingItem
    \/ SkipNonDocument
    \/ SplitFile
    \/ SingleSection
    \/ ReturnEpubBook

SpecEpub == InitEpub /\ [][NextEpub]_vars

\* process_epub and process_pdf: the two conversions of the program
Init == InitEpub \/ InitPdf

Next == NextEpub \/ NextPdf

Spec == Init /\ [][Next]_vars

----------------------------------------------------------------------------
(* Claims about the produced Book *)

\* The spine positions (1-based) process_epub has gone through
Processed == IF pc \in {"spine", "done"} THEN (1..i) \cap (1..Len(book.spine)) ELSE {}

\* The manifest item of spine position j, when it is a document
IsUnit(j) ==
    /\ ItemIndex(book, book.spine[j]) # 0
    /\ book.items[ItemIndex(book, book.spine[j])].type = "document"

UnitItem(j) == book.items[ItemIndex(book, book.spine[j])]

\* The navigation entries with an anchor that target the file of spine position j
Anchored(j) ==
    {k \in 1..Len(flat_toc) :
        flat_toc[k].file_href = UnitItem(j).name /\ flat_toc[k].anchor # <<>>}

\* The chapters (positions in spine_chapters) made from the file of spine position j
ChaptersOf(j) ==
    {c \in 1..Len(spine_chapters) : SplitHash(spine_chapters[c].href)[1] = UnitItem(j).name}

\* The plain text of the whole cleaned file of spine position j
UnitText(j) == extract_plain_text(StrSoup(clean_html_content(ParsedContent(UnitItem(j)))))

\* C1: the chapters' order values are 0, 1, ..., N-1 in list position, in
\* process_epub (items skipped, files split) and in process_pdf alike.
C1_OrderIsPosition ==
    \A c \in 1..Len(spine_chapters) : spine_chapters[c].order = c - 1

\* C1 witness: a Book whose spine skipped an item, then split a file into two
\* chapters and went on with a further file
C1_Witness ==
    /\ pc = "done"
    /\ Len(book.spine) = 3
    /\ ~IsUnit(1)
    /\ IsUnit(2) /\ Cardinality(ChaptersOf(2)) = 2
    /\ IsUnit(3) /\ Cardinality(ChaptersOf(3)) = 1
    /\ spine_chapters[3].order = 2

\* C2: a file with more than one anchored entry of which none resolves still
\* yields exactly one chapter holding the whole unit.
C2_FallBackToSingleSection ==
    \A j \in Processed :
        ( /\ IsUnit(j)
          /\ Cardinality(Anchored(j)) > 1
          /\ \A k \in Anchored(j) :
                FindId(clean_html_content(ParsedContent(UnitItem(j))), flat_toc[k].anchor) = 0 )
        => /\ Cardinality(ChaptersOf(j)) = 1
           /\ \A c \in ChaptersOf(j) : spine_chapters[c].text = UnitText(j)

\* C3: the Book of a non-empty source (an EPUB whose spine has an existing document
\* item, a PDF with at least one page) has at least one chapter.
C3_ChaptersNeverEmpty ==
    ( /\ pc = "done"
      /\ \/ \E j \in 1..Len(book.spine) : IsUnit(j)
         \/ doc.n >= 1 )
    => Len(spine_chapters) >= 1

\* C7: no two chapters of a Book have the same id.
C7_ChapterIdsUnique ==
    \A c, d \in 1..Len(spine_chapters) :
        c # d => spine_chapters[c].id # spine_chapters[d].id

\* C8: a file with zero or exactly one anchored entry gives exactly one chapter,
\* whose text is the plain text of the whole cleaned unit, whose id is the spine
\* item id and whose title is that of the first entry (pre-order) that targets the
\* file, else "Section {i+1}" for spine position i.
C8_SingleSection ==
    \A j \in Processed :
        (IsUnit(j) /\ Cardinality(Anchored(j)) <= 1)
        => /\ Cardinality(ChaptersOf(j)) = 1
           /\ \A c \in ChaptersOf(j) :
                 LET targets == {k \in 1..Len(flat_toc) :
                                    flat_toc[k].file_href = UnitItem(j).name}
                 IN  /\ spine_chapters[c].text = UnitText(j)
                     /\ spine_chapters[c].id = book.spine[j]
                     /\ spine_chapters[c].href = UnitItem(j).name
                     /\ spine_chapters[c].title =
                           IF targets # {} THEN flat_toc[Min(targets)].title
                           ELSE <<"Section " \o ToString(j)>>

\* C8 witness: a file with exactly one anchored entry, preceded in the flattened
\* tree by an entry for the whole file, has become one chapter; so has a file
\* without any entry
C8_Witness ==
    /\ pc = "done"
    /\ \E j \in Processed :
          /\ IsUnit(j)
          /\ Cardinality(Anchored(j)) = 1
          /\ \E k \in 1..Len(flat_toc) :
                flat_toc[k].file_href = UnitItem(j).name /\ k < Min(Anchored(j))
          /\ Cardinality(ChaptersOf(j)) = 1
    /\ \E j \in Processed :
          /\ IsUnit(j)
          /\ \A k \in 1..Len(flat_toc) : flat_toc[k].file_href # UnitItem(j).name
          /\ \E c \in ChaptersOf(j) : spine_chapters[c].title = <<"Section 2">>

\* The physical content units: the spine positions that hold a document
Units == {j \in 1..Len(book.spine) : IsUnit(j)}

\* The k-th unit in reading order
UnitAt(k) == CHOOSE j \in Units : Cardinality({m \in Units : m < j}) = k - 1

\* C10: the fallback navigation is built exactly when parse_toc_recursive returns
\* an empty list; it has one entry per physical content unit, in reading order,
\* each with empty anchor, no children and href = file_href = the unit's file name.
C10_FallbackPerUnit ==
    pc \in {"spine", "done"}
    => /\ fallback_used = (parse_toc_recursive(book.toc) = <<>>)
       /\ fallback_used =>
             /\ Len(toc_structure) = Cardinality(Units)
             /\ \A k \in 1..Len(toc_structure) :
                   /\ k <= Cardinality(Units)
                   /\ toc_structure[k].href = UnitItem(UnitAt(k)).name
                   /\ toc_structure[k].file_href = UnitItem(UnitAt(k)).name
                   /\ toc_structure[k].anchor = <<>>
                   /\ toc_structure[k].children = <<>>

----------------------------------------------------------------------------
(* parse_toc_recursive on its own: the hrefs a native table of contents can carry *)

\* Bound of the hrefs: number of '#' in one href
MaxHashes == 2

\* A file name followed by n fragments, each behind its own '#'
RECURSIVE Fragments(_)
Fragments(n) ==
    IF n = 0 THEN {<<>>}
    ELSE {<<"#">> \o a \o rest : a \in {<<"a1">>, <<"a2">>}, rest \in Fragments(n - 1)}

Hrefs == {f \o rest : f \in {F1, F2}, rest \in UNION {Fragments(n) : n \in 0..MaxHashes}}

\* book.toc: two nodes side by side, a tuple with a child, tuples nested twice, and
\* a node that is neither tuple, Link nor Section followed by a Link
TocShapes(h1, h2) ==
    { <<Link(<<"A">>, h1), [kind |-> "section", title |-> <<"B">>, href |-> h2, children |-> <<>>]>>,
      <<[kind |-> "tuple", title |-> <<"A">>, href |-> h1, children |-> <<Link(<<"B">>, h2)>>]>>,
      <<[kind |-> "tuple", title |-> <<"A">>, href |-> h1,
         children |-> <<[kind |-> "tuple", title |-> <<"B">>, href |-> h2,
                         children |-> <<Link(<<"C">>, h1)>>]>>]>>,
      <<[kind |-> "other", title |-> <<>>, href |-> <<>>, children |-> <<>>],
        Link(<<"B">>, h2)>> }

InitToc ==
    /\ pc = "parse_toc"
    /\ book \in [items : {<<CHOOSE it \in ManifestItems : it.id = <<"i1">>,
                            CHOOSE it \in ManifestItems : it.id = <<"i2">> >>},
                 spine : {<< <<"i1">> >>},
                 toc   : UNION {TocShapes(h1, h2) : h1, h2 \in Hrefs}]
    /\ doc = NoDoc
    /\ chapter_ranges = <<>>
    /\ spine_chapters = <<>>
    /\ toc_structure = <<>>
    /\ flat_toc = <<>>
    /\ fallback_used = FALSE
    /\ i = 0
    /\ soup = NoSoup
    /\ toc_entries = <<>>
    /\ sections = <<>>
    /\ InRun(".epub")
    /\ NoText

NextToc == ParseToc

SpecToc == InitToc /\ [][NextToc]_vars

\* 1-based position of the first '#' of href, 0 when it has none
FirstHash(href) ==
    LET hits == {k \in 1..Len(href) : href[k] = "#"}
    IN  IF hits = {} THEN 0 ELSE Min(hits)

\* C11: every TOCEntry built by parse_toc_recursive, at every nesting level, has
\* file_href = the prefix of href up to the first '#' and anchor = the whole
\* remainder of href after that first '#' (empty without '#'), so href = file_href
\* without '#' and href = file_href + '#' + anchor otherwise, also for an href with
\* more than one '#'.
C11_HrefSplitsAtFirstHash ==
    (pc = "spine" /\ ~fallback_used)
    => \A k \in 1..Len(flat_toc) :
          LET e == flat_toc[k]
              p == FirstHash(e.href)
          IN  IF p = 0
              THEN e.file_href = e.href /\ e.anchor = <<>>
              ELSE /\ e.file_href = SubSeq(e.href, 1, p - 1)
                   /\ e.anchor = SubSeq(e.href, p + 1, Len(e.href))
                   /\ e.href = e.file_href \o <<"#">> \o e.anchor

----------------------------------------------------------------------------
(* The front ends: reader3.py __main__ and server.py upload_book *)

\* os.path.splitext(...)[1] of the input names
Exts == {".epub", ".pdf", ".EPUB", ".Pdf", ".txt", ""}

\* str.lower() on those extensions
Lower(ext) ==
    CASE ext = ".EPUB" -> ".epub"
      [] ext = ".Pdf" -> ".pdf"
      [] OTHER -> ext

\* reader3.py lines 587-590, server.py line 124: the extension test
SupportedAlways(ext) == TRUE

Supported(ext) == Lower(ext) \in {".epub", ".pdf"}

\* The inputs: no argument at all, or a name whose file may be missing or may not
\* be a document its library can open
Inputs ==
    {[given |-> FALSE, ext |-> "", exists |-> FALSE, readable |-> FALSE]}
    \cup {f \in [given : {TRUE}, ext : Exts, exists : BOOLEAN, readable : BOOLEAN] :
             f.readable => f.exists}

\* The documents behind a readable input: books with a file that is split, and
\* short PDFs with and without outline
RunBooks ==
    {b \in Books : /\ Len(b.spine) = 3
                   /\ b.toc = <<Link(<<"One A">>, F1 \o <<"#", "a1">>),
                                Link(<<"One B">>, F1 \o <<"#", "a2">>)>>}

RunDocs == {d \in PdfDocs : d.n <= 2 /\ Len(d.toc) <= 1}

\* The positions of the front ends, outside process_epub / process_pdf
FrontPcs == {"cli", "upload", "exit"}

InitRun ==
    /\ caller \in {"cli", "upload"}
    /\ pc = caller
    /\ input_file \in Inputs
    /\ caller = "upload" => input_file.given /\ input_file.exists
    /\ out_dir \in {"absent", "old"}
    /\ tmp_path = FALSE
    /\ outcome = ""
    /\ doc = NoDoc
    /\ book = NoBook
    /\ chapter_ranges = <<>>
    /\ spine_chapters = <<>>
    /\ toc_structure = <<>>
    /\ flat_toc = <<>>
    /\ fallback_used = FALSE
    /\ i = 0
    /\ soup = NoSoup
    /\ toc_entries = <<>>
    /\ sections = <<>>
    /\ NoText

\* the variables the front ends leave alone
book_vars == <<doc, book, chapter_ranges, spine_chapters, toc_structure, flat_toc,
               fallback_used, i, soup, toc_entries, sections>>

\* reader3.py lines 575-577
CliUsage ==
    /\ pc = "cli"
    /\ ~input_file.given
    /\ outcome' = "exit_1"
    /\ pc' = "exit"
    /\ UNCHANGED <<caller, input_file, out_dir, tmp_path, book_vars, text_vars>>

\* reader3.py line 580
CliFileNotFound ==
    /\ pc = "cli"
    /\ input_file.given
    /\ ~input_file.exists
    /\ outcome' = "AssertionError"
    /\ pc' = "exit"
    /\ UNCHANGED <<caller, input_file, out_dir, tmp_path, book_vars, text_vars>>

\* reader3.py lines 583-584 and 591-594: out_dir is only named
CliUnsupported ==
    /\ pc = "cli"
    /\ input_file.given
    /\ input_file.exists
    /\ ~Supported(input_file.ext)
    /\ outcome' = "exit_1"
    /\ pc' = "exit"
    /\ UNCHANGED <<caller, input_file, out_dir, tmp_path, book_vars, text_vars>>

\* reader3.py lines 583-590: process_epub or process_pdf is entered
CliDispatch ==
    /\ pc = "cli"
    /\ input_file.given
    /\ input_file.exists
    /\ Supported(input_file.ext)
    /\ pc' = "open"
    /\ UNCHANGED <<caller, input_file, out_dir, tmp_path, outcome, book_vars, text_vars>>

\* server.py lines 120-125
UploadRejected ==
    /\ pc = "upload"
    /\ ~Supported(input_file.ext)
    /\ outcome' = "http_400"
    /\ pc' = "exit"
    /\ UNCHANGED <<caller, input_file, out_dir, tmp_path, book_vars, text_vars>>

\* server.py lines 120-145: the upload is copied to a temporary file and process_epub
\* or process_pdf is entered
UploadAccepted ==
    /\ pc = "upload"
    /\ Supported(input_file.ext)
    /\ tmp_path' = TRUE
    /\ pc' = "open"
    /\ UNCHANGED <<caller, input_file, out_dir, outcome, book_vars, text_vars>>

\* reader3.py lines 265, 413: the library raises; server.py lines 159-163
OpenFails ==
    /\ pc = "open"
    /\ ~input_file.readable
    /\ outcome' = IF caller = "upload" THEN "http_500" ELSE "traceback"
    /\ tmp_path' = FALSE
    /\ pc' = "exit"
    /\ UNCHANGED <<caller, input_file, out_dir, book_vars, text_vars>>

\* reader3.py lines 263-268
OpenEpub ==
    /\ pc = "open"
    /\ input_file.readable
    /\ Lower(input_file.ext) = ".epub"
    /\ book' \in RunBooks
    /\ pc' = "opened"
    /\ UNCHANGED <<run_vars, text_vars, doc, chapter_ranges, spine_chapters, toc_structure,
                   flat_toc, fallback_used, i, soup, toc_entries, sections>>

\* reader3.py lines 412-431
OpenPdf ==
    /\ pc = "open"
    /\ input_file.readable
    /\ Lower(input_file.ext) = ".pdf"
    /\ doc' \in RunDocs
    /\ pc' = "opened"
    /\ UNCHANGED <<run_vars, text_vars, book, chapter_ranges, spine_chapters, toc_structure,
                   flat_toc, fallback_used, i, soup, toc_entries, sections>>

\* reader3.py lines 271-274 and 434-437: an existing directory is removed, then the
\* directory is made
PrepareOutput ==
    /\ pc = "opened"
    /\ out_dir' = "new"
    /\ pc' = IF Lower(input_file.ext) = ".epub" THEN "parse_toc" ELSE "get_toc"
    /\ UNCHANGED <<caller, input_file, tmp_path, outcome, book_vars, text_vars>>

\* reader3.py lines 596-602: book.pkl is written into the directory
CliSaved ==
    /\ pc = "done"
    /\ caller = "cli"
    /\ outcome' = "saved"
    /\ pc' = "exit"
    /\ UNCHANGED <<caller, input_file, out_dir, tmp_path, book_vars, text_vars>>

\* server.py lines 148-157
UploadSaved ==
    /\ pc = "done"
    /\ caller = "upload"
    /\ tmp_path' = FALSE
    /\ outcome' = "redirect_303"
    /\ pc' = "exit"
    /\ UNCHANGED <<caller, input_file, out_dir, book_vars, text_vars>>

NextRun ==
    \/ CliUsage
    \/ CliFileNotFound
    \/ CliUnsupported
    \/ CliDispatch
    \/ UploadRejected
    \/ UploadAccepted
    \/ OpenFails
    \/ OpenEpub
    \/ OpenPdf
    \/ PrepareOutput
    \/ NextEpub
    \/ NextPdf
    \/ CliSaved
    \/ UploadSaved

SpecRun == InitRun /\ [][NextRun]_vars

\* C12: an input of unsupported format (extension neither .epub nor .pdf) is
\* rejected before any mutation of the output directory: in the CLI and in
\* upload_book no step of its run changes the output directory or enters
\* processing; the output directory changes only inside process_epub / process_pdf,
\* after the source document has been opened.
C12_RejectedBeforeMutation ==
    [][ /\ Lower(input_file.ext) \notin {".epub", ".pdf"}
           => /\ out_dir' = out_dir
              /\ pc' \in FrontPcs
              /\ pc' = "exit" => outcome' \in {"exit_1", "http_400", "AssertionError"}
        /\ out_dir' # out_dir
           => /\ pc = "opened"
              /\ pc' \in {"parse_toc", "get_toc"}
              /\ Lower(input_file.ext) \in {".epub", ".pdf"}
              /\ input_file.readable ]_vars

\* C12 witness: an upload of unsupported format has been rejected while an output
\* directory of an earlier run exists
C12_Witness ==
    /\ pc = "exit"
    /\ caller = "upload"
    /\ input_file.ext = ".txt"
    /\ outcome = "http_400"
    /\ out_dir = "old"

----------------------------------------------------------------------------
(* extract_plain_text on its own: the normalisation of line 94 *)

\* Bound of the texts: number of tokens
MaxText == 5

\* A token is a word or one whitespace character
TextTokens == {"w1", "w2"} \cup Whitespace

\* The strings get_text can return
Texts == UNION {[1..n -> TextTokens] : n \in 0..MaxText}

InitText ==
    /\ pc = "get_text"
    /\ raw_text \in Texts
    /\ plain_text = <<>>
    /\ InRun(".epub")
    /\ doc = NoDoc
    /\ book = NoBook
    /\ chapter_ranges = <<>>
    /\ spine_chapters = <<>>
    /\ toc_structure = <<>>
    /\ flat_toc = <<>>
    /\ fallback_used = FALSE
    /\ i = 0
    /\ soup = NoSoup
    /\ toc_entries = <<>>
    /\ sections = <<>>

\* line 94: the text of line 92 is normalised and returned
CollapseText ==
    /\ pc = "get_text"
    /\ plain_text' = CollapseWhitespace(raw_text)
    /\ pc' = "returned"
    /\ UNCHANGED <<raw_text, run_vars, book_vars>>

\* line 94 once more, on the string it returned
CollapseAgain ==
    /\ pc = "returned"
    /\ plain_text' = CollapseWhitespace(plain_text)
    /\ pc' = "reapplied"
    /\ UNCHANGED <<raw_text, run_vars, book_vars>>

NextText ==
    \/ CollapseText
    \/ CollapseAgain

SpecText == InitText /\ [][NextText]_vars

\* C13: the whitespace normalisation of extract_plain_text applied to its own output
\* returns that output unchanged, and its output never has leading or trailing
\* whitespace nor two consecutive spaces, for every input text.
C13_CollapseIdempotent ==
    /\ pc = "reapplied" => plain_text = CollapseWhitespace(raw_text)
    /\ pc \in {"returned", "reapplied"}
       => /\ plain_text # <<>>
             => /\ plain_text[1] \notin Whitespace
                /\ plain_text[Len(plain_text)] \notin Whitespace
          /\ \A k \in 1..(Len(plain_text) - 1) :
                ~(plain_text[k] = " " /\ plain_text[k + 1] = " ")

\* C13 witness: a text with leading whitespace and a run of different whitespace
\* characters between two words has been normalised, and the result normalised again
C13_Witness ==
    /\ pc = "reapplied"
    /\ raw_text = <<"\n", "w1", "\t", " ", "w2">>
    /\ plain_text = <<"w1", " ", "w2">>

----------------------------------------------------------------------------
(* The fragments of split_chapter_by_anchors *)

\* Number of places of str(body) at which the id attribute text of anchor_id
\* stands, in either quoting
Occurrences(body_html, anchor_id) ==
    Cardinality({p \in 0..(Len(body_html) - 3) :
                    \/ SubSeq(body_html, p + 1, p + 3) = <<"id=\"">> \o anchor_id \o <<"\"">>
                    \/ SubSeq(body_html, p + 1, p + 3) = <<"id='">> \o anchor_id \o <<"'">>})

\* 0-based offset of the '<' that opens the tag in which the id attribute text of
\* anchor_id stands
TagBoundary(body_html, anchor_id) ==
    RFind(body_html, "<", 0, MarkerPos(body_html, anchor_id))

\* Every candidate anchor resolves and its id attribute text stands exactly once in
\* str(body)
ResolvedOnce ==
    \A k \in 1..Len(toc_entries) :
        /\ FindId(soup, toc_entries[k].anchor) > 0
        /\ Occurrences(BodyHtml(soup), toc_entries[k].anchor) = 1

\* C14: when every candidate anchor resolves and each anchor's id attribute text
\* occurs exactly once in the serialized body, there is one fragment per entry; each
\* fragment starts at the opening-tag boundary of its anchor and ends exactly at the
\* boundary where the next fragment starts, the last at the end of the body, so the
\* fragments are contiguous, do not overlap and together are the body from the first
\* anchor's boundary to its end; nothing before that boundary is in any fragment.
C14_FragmentsContiguous ==
    (pc = "return" /\ ResolvedOnce)
    => LET body_html == BodyHtml(soup)
           n == Len(sections)
           B(k) == IF k > n THEN Len(body_html)
                   ELSE TagBoundary(body_html, sections[k].anchor)
       IN  /\ n = Len(toc_entries)
           /\ \A k \in 1..n :
                 /\ 0 <= B(k)
                 /\ B(k) <= B(k + 1)
                 /\ sections[k].html = SubSeq(body_html, B(k) + 1, B(k + 1))
           /\ \A k \in 1..n : B(1) <= B(k)

====
